---- MODULE Spec2Model ----
(***************************************************************************)
(* DashNet: the engine state of the terminal dashboard (struct App of      *)
(* src/src/main.rs), its tick (App::update_metrics, which first polls the  *)
(* connection state with App::update_active_states) and the key handling   *)
(* of the event loop of main.                                              *)
(*                                                                         *)
(* Representation                                                          *)
(*  - interface names are tuples of one-character strings, so that the     *)
(*    substring and prefix tests of the code are computed, not tabulated;  *)
(*  - an f64 throughput q is held as the integer q * MbDiv (the numerator  *)
(*    of the division by 1024.0 * 1024.0 of main.rs:122, which is exact    *)
(*    in f64 for the byte counts used here);                               *)
(*  - the f64 sequence counter is held as a natural number (exact in f64   *)
(*    below 2^53 ticks);                                                   *)
(*  - NetStats.tx (net_monitor.rs:19) and App.previous_ssid are never read *)
(*    by main.rs and are left out;                                         *)
(*  - list_state.selected() is only ever set with select(Some(i)) in       *)
(*    main.rs (lines 66, 196, 199, 203) and is held as the number i; what  *)
(*    the list widget does to list_state while drawing is library code     *)
(*    and is not modelled;                                                 *)
(*  - the names nmcli reports as active are a sequence that names no       *)
(*    tunnel twice;                                                        *)
(*  - handled, notifications, raised and entry record what the handlers    *)
(*    hand to the external collaborators (process spawns) and what was     *)
(*    under the cursor when the secret entry started; typed counts the     *)
(*    Char keys since then, less the Backspace keys (never below 0); no    *)
(*    handler reads them.                                                  *)
(***************************************************************************)
EXTENDS Integers, Sequences, FiniteSets, TLC

VARIABLES
    vpn_names,            \* App.vpn_names: Vec<String>
    wifi_ssids,           \* App.wifi_ssids: Vec<String>
    active_vpns,          \* App.active_vpns: Vec<String>
    previous_active_vpns, \* App.previous_active_vpns: Vec<String>
    current_ssid,         \* App.current_ssid: String
    selection_mode,       \* App.selection_mode: "VPN" | "WiFi" | "PasswordInput"
    previous_mode,        \* App.previous_mode
    password_input,       \* App.password_input, a sequence of characters
    selected,             \* App.list_state.selected(), always Some(selected)
    interfaces,           \* App.interfaces: name -> InterfaceData
    last_stats,           \* App.last_stats: name -> rx counter
    counter,              \* App.counter
    graph_index,          \* App.graph_index
    pc,                   \* the loop of main: "running" | "quit" | "failed"
    handled,              \* the last input handled and the process it spawned
    notifications,        \* the notify-send calls of the last poll, in order
    raised,               \* per tunnel, the kind of the last notification raised
    entry,                \* what was selected when PasswordInput was entered
    typed                 \* characters typed less characters erased since then

vars == << vpn_names, wifi_ssids, active_vpns, previous_active_vpns, current_ssid,
           selection_mode, previous_mode, password_input, selected, interfaces,
           last_stats, counter, graph_index, pc, handled, notifications, raised,
           entry, typed >>

selVars == << vpn_names, wifi_ssids, selection_mode, previous_mode, password_input,
              selected, graph_index, entry, typed >>

tickVars == << active_vpns, previous_active_vpns, current_ssid, interfaces,
               last_stats, counter, notifications, raised >>

----------------------------------------------------------------------------
(* Program constants *)

\* entry.history.len() > 300
HistoryCap == 300
\* 1024.0 * 1024.0
MbDiv == 1048576
\* Duration::from_millis(500)
WindowWidth == 300
TickMillis == 500

----------------------------------------------------------------------------
(* Bounds of the model *)

MaxTicks == 1
MaxTicksConn == 3
MaxTicksMetrics == 3
MaxTicksWindow == 302
MaxSecretLen == 2
MaxTicksRender == 2
MaxGraphRender == 3
MaxGraph == 1

----------------------------------------------------------------------------
(* Interface names *)

ETH0 == << "e", "t", "h", "0" >>
LO == << "l", "o" >>
TUN0 == << "t", "u", "n", "0" >>
WG0 == << "w", "g", "0" >>
BR1 == << "b", "r", "-", "1" >>
DOCKER0 == << "d", "o", "c", "k", "e", "r", "0" >>

Contains(s, p) ==
    \E i \in 0 .. (Len(s) - Len(p)) : \A j \in 1 .. Len(p) : s[i + j] = p[j]

StartsWith(s, p) ==
    Len(s) >= Len(p) /\ \A j \in 1 .. Len(p) : s[j] = p[j]

\* Excluded that knows the loopback only
ExcludedLoopbackOnly(name) == name = LO

Excluded(name) ==
    \/ name = LO
    \/ Contains(name, << "d", "o", "c", "k", "e", "r" >>)
    \/ Contains(name, << "b", "r", "-" >>)

ColorOf(name) ==
    IF StartsWith(name, << "w" >>) THEN "Yellow"
    ELSE IF StartsWith(name, << "e" >>) THEN "Green"
    ELSE "Cyan"

----------------------------------------------------------------------------
(* Throughput tracker: App::update_metrics *)

\* SatSub as a plain subtraction
SubPlain(a, b) == a - b

SatSub(a, b) == IF a >= b THEN a - b ELSE 0

\* the throughput times MbDiv
Speed(rx, old_rx) == SatSub(rx, old_rx) * 8

\* NewInterface that starts the history with a zero sample
NewInterfaceSeeded(name) ==
    [history |-> << << 0, 0 >> >>, current_speed |-> 0, color |-> ColorOf(name)]

NewInterface(name) ==
    [history |-> << >>, current_speed |-> 0, color |-> ColorOf(name)]

\* Evict with the newest sample dropped in place of the oldest
EvictNewest(h) == IF Len(h) > HistoryCap THEN SubSeq(h, 1, Len(h) - 1) ELSE h

Evict(h) == IF Len(h) > HistoryCap THEN Tail(h) ELSE h

\* PushSample that stamps the sample with the counter before its increment
PushSampleEarly(e, c, sp) ==
    [e EXCEPT !.current_speed = sp,
              !.history = Evict(Append(e.history, << c - 1, sp >>))]

PushSample(e, c, sp) ==
    [e EXCEPT !.current_speed = sp, !.history = Evict(Append(e.history, << c, sp >>))]

\* the body of the loop runs for this name of the snapshot
Sampled(name, snap) ==
    name \in DOMAIN snap /\ ~Excluded(name) /\ name \in DOMAIN last_stats

\* Retain without the retain
RetainAll(names, snap) == names

Retain(names, snap) == {n \in names : n \in DOMAIN snap}

Metrics(snap) ==
    LET c == counter + 1
        touched == {n \in DOMAIN snap : Sampled(n, snap)}
        kept == Retain(DOMAIN interfaces \cup touched, snap)
    IN  /\ counter' = c
        /\ interfaces' =
             [n \in kept |->
                IF n \in touched
                THEN PushSample(IF n \in DOMAIN interfaces THEN interfaces[n]
                                ELSE NewInterface(n),
                                c, Speed(snap[n], last_stats[n]))
                ELSE interfaces[n]]
        /\ last_stats' = snap

----------------------------------------------------------------------------
(* Connection state tracker: App::update_active_states *)

\* the Result of Command::output: Ok with what was parsed from it, or Err
Ok(v) == [ok |-> TRUE, val |-> v]

Unavailable == [ok |-> FALSE, val |-> 0]

Outputs(dom) == {Ok(v) : v \in dom} \cup {Unavailable}

InSeq(x, s) == \E i \in 1 .. Len(s) : s[i] = x

Event(kind, s) == [i \in 1 .. Len(s) |-> [kind |-> kind, name |-> s[i]]]

Disconnects(prev, act) == SelectSeq(prev, LAMBDA t : ~InSeq(t, act))

Connects(prev, act) == SelectSeq(act, LAMBDA t : ~InSeq(t, prev))

\* Diff with the two loops in the other order
DiffConnectsFirst(prev, act) ==
    Event("Connected", Connects(prev, act)) \o Event("Disconnected", Disconnects(prev, act))

Diff(prev, act) ==
    Event("Disconnected", Disconnects(prev, act)) \o Event("Connected", Connects(prev, act))

Reported(rep, old) == IF rep.ok THEN rep.val ELSE old

LastRaised(old, evs) ==
    [t \in DOMAIN old |->
        IF \E i \in 1 .. Len(evs) : evs[i].name = t
        THEN LET last == CHOOSE i \in 1 .. Len(evs) :
                            /\ evs[i].name = t
                            /\ \A j \in (i + 1) .. Len(evs) : evs[j].name # t
             IN  evs[last].kind
        ELSE old[t]]

\* PreviousOnPoll without the overwrite
PreviousStale == previous_active_vpns

\* self.previous_active_vpns = self.active_vpns.clone()
PreviousOnPoll == active_vpns

UpdateActiveStates(rep, ssid) ==
    LET prev == PreviousOnPoll
        act == Reported(rep, active_vpns)
    IN  /\ previous_active_vpns' = prev
        /\ active_vpns' = act
        /\ current_ssid' = Reported(ssid, current_ssid)
        /\ notifications' = Diff(prev, act)
        /\ raised' = LastRaised(raised, Diff(prev, act))

----------------------------------------------------------------------------
(* Selection state machine: the key handling of main *)

\* Option::None of Vec::get
NoName == "<none>"

Get(list, idx) == IF idx < Len(list) THEN list[idx + 1] ELSE NoName

ListOf(mode) == IF mode = "VPN" THEN vpn_names ELSE wifi_ssids

\* what a handler hands to a spawned process
Act(kind, origin, name, secret) ==
    [kind |-> kind, origin |-> origin, name |-> name, secret |-> secret]

NoAction == Act("none", "-", NoName, << >>)

Handled(key, out) == [key |-> key, out |-> out]

NoEntry == [mode |-> "-", name |-> NoName, selected |-> 0]

\* KeyCode::Char(c): the characters typed in the model
Chars == {"s", "3"}

\* the outcomes of Command::spawn for the connect command
SpawnOutcomes == {"spawned", "error"}

\* ModeOnLeave with the originating mode forgotten
ModeOnLeaveVPN == "VPN"

ModeOnLeave == previous_mode

BufferOnLeave == password_input

\* BufferOnEntry without the clear
BufferKept == password_input

BufferOnEntry == << >>

CursorOnToggle == 0

CursorOnRefresh == selected

\* `spawn()?` returned Err: main returns it, the assignment of line 185 is not reached
SpawnFailed ==
    /\ pc' = "failed"
    /\ handled' = Handled("Enter", NoAction)
    /\ UNCHANGED << selVars, tickVars >>

Committed(out) ==
    /\ selection_mode' = ModeOnLeave
    /\ password_input' = BufferOnLeave
    /\ handled' = Handled("Enter", out)
    /\ UNCHANGED << vpn_names, wifi_ssids, previous_mode, selected, graph_index,
                    entry, typed, pc, tickVars >>

PwEnter ==
    /\ pc = "running"
    /\ selection_mode = "PasswordInput"
    /\ LET target == Get(ListOf(previous_mode), selected)
       IN  IF target # NoName
           THEN \E outcome \in SpawnOutcomes :
                   IF outcome = "spawned"
                   THEN Committed(Act("connect", previous_mode, target, password_input))
                   ELSE SpawnFailed
           ELSE Committed(NoAction)

PwEsc ==
    /\ pc = "running"
    /\ selection_mode = "PasswordInput"
    /\ selection_mode' = ModeOnLeave
    /\ password_input' = BufferOnLeave
    /\ handled' = Handled("Esc", NoAction)
    /\ UNCHANGED << vpn_names, wifi_ssids, previous_mode, selected, graph_index,
                    entry, typed, pc, tickVars >>

\* Pop that never erases the last remaining character
PopKeepsFirst(s) == IF Len(s) <= 1 THEN s ELSE SubSeq(s, 1, Len(s) - 1)

Pop(s) == IF Len(s) = 0 THEN s ELSE SubSeq(s, 1, Len(s) - 1)

PwBackspace ==
    /\ pc = "running"
    /\ selection_mode = "PasswordInput"
    /\ password_input' = Pop(password_input)
    /\ typed' = (IF typed > 0 THEN typed - 1 ELSE 0)
    /\ handled' = Handled("Backspace", NoAction)
    /\ UNCHANGED << vpn_names, wifi_ssids, selection_mode, previous_mode, selected,
                    graph_index, entry, pc, tickVars >>

\* PwCharOf with the quit key tested before the mode
PwCharQuits(chars, maxLen) ==
    /\ pc = "running"
    /\ selection_mode = "PasswordInput"
    /\ Len(password_input) < maxLen
    /\ \E c \in chars :
          IF c = "q"
          THEN pc' = "quit" /\ UNCHANGED << password_input, typed >>
          ELSE /\ password_input' = Append(password_input, c)
               /\ typed' = typed + 1
               /\ pc' = pc
    /\ handled' = Handled("Char", NoAction)
    /\ UNCHANGED << vpn_names, wifi_ssids, selection_mode, previous_mode, selected,
                    graph_index, entry, tickVars >>

PwCharOf(chars, maxLen) ==
    /\ pc = "running"
    /\ selection_mode = "PasswordInput"
    /\ Len(password_input) < maxLen
    /\ \E c \in chars : password_input' = Append(password_input, c)
    /\ typed' = typed + 1
    /\ handled' = Handled("Char", NoAction)
    /\ UNCHANGED << vpn_names, wifi_ssids, selection_mode, previous_mode, selected,
                    graph_index, entry, pc, tickVars >>

PwChar(maxLen) == PwCharOf(Chars, maxLen)

\* any other key, and any event that is not a key
Ignored ==
    /\ pc = "running"
    /\ handled' = Handled("Other", NoAction)
    /\ UNCHANGED << selVars, pc, tickVars >>

Browsing == pc = "running" /\ selection_mode # "PasswordInput"

list_len == Len(ListOf(selection_mode))

KeyQuit ==
    /\ Browsing
    /\ pc' = "quit"
    /\ handled' = Handled("q", NoAction)
    /\ UNCHANGED << selVars, tickVars >>

KeyTab ==
    /\ Browsing
    /\ selection_mode' = (IF selection_mode = "VPN" THEN "WiFi" ELSE "VPN")
    /\ selected' = CursorOnToggle
    /\ handled' = Handled("Tab", NoAction)
    /\ UNCHANGED << vpn_names, wifi_ssids, previous_mode, password_input, graph_index,
                    entry, typed, pc, tickVars >>

\* DownIndex wrapping one index late
DownIndexLate(i, len) == IF i >= len THEN 0 ELSE i + 1

DownIndex(i, len) == IF i >= len - 1 THEN 0 ELSE i + 1

UpIndex(i, len) == IF i = 0 THEN len - 1 ELSE i - 1

KeyDown ==
    /\ Browsing
    /\ selected' = (IF list_len > 0 THEN DownIndex(selected, list_len) ELSE selected)
    /\ handled' = Handled("Down", NoAction)
    /\ UNCHANGED << vpn_names, wifi_ssids, selection_mode, previous_mode,
                    password_input, graph_index, entry, typed, pc, tickVars >>

KeyUp ==
    /\ Browsing
    /\ selected' = (IF list_len > 0 THEN UpIndex(selected, list_len) ELSE selected)
    /\ handled' = Handled("Up", NoAction)
    /\ UNCHANGED << vpn_names, wifi_ssids, selection_mode, previous_mode,
                    password_input, graph_index, entry, typed, pc, tickVars >>

KeyEnter ==
    /\ Browsing
    /\ handled' = Handled("Enter", NoAction)
    /\ IF list_len > 0
       THEN /\ previous_mode' = selection_mode
            /\ selection_mode' = "PasswordInput"
            /\ password_input' = BufferOnEntry
            /\ entry' = [mode |-> selection_mode,
                         name |-> Get(ListOf(selection_mode), selected),
                         selected |-> selected]
            /\ typed' = 0
       ELSE UNCHANGED << previous_mode, selection_mode, password_input, entry, typed >>
    /\ UNCHANGED << vpn_names, wifi_ssids, selected, graph_index, pc, tickVars >>

KeyDisconnect ==
    /\ Browsing
    /\ handled' =
         Handled("x", IF selection_mode = "VPN" /\ Get(vpn_names, selected) # NoName
                      THEN Act("disconnect", "VPN", Get(vpn_names, selected), << >>)
                      ELSE NoAction)
    /\ UNCHANGED << selVars, pc, tickVars >>

KeyRefresh(vpnDom, wifiDom) ==
    /\ Browsing
    /\ \E v \in vpnDom, w \in wifiDom : vpn_names' = v /\ wifi_ssids' = w
    /\ selected' = CursorOnRefresh
    /\ handled' = Handled("r", NoAction)
    /\ UNCHANGED << selection_mode, previous_mode, password_input, graph_index,
                    entry, typed, pc, tickVars >>

KeyGraph(maxGraph) ==
    /\ Browsing
    /\ graph_index < maxGraph
    /\ graph_index' = graph_index + 1
    /\ handled' = Handled("g", NoAction)
    /\ UNCHANGED << vpn_names, wifi_ssids, selection_mode, previous_mode,
                    password_input, selected, entry, typed, pc, tickVars >>

KeyEditor ==
    /\ Browsing
    /\ handled' = Handled("a", Act("editor", "-", NoName, << >>))
    /\ UNCHANGED << selVars, pc, tickVars >>

----------------------------------------------------------------------------
(* The tick of the loop, and construction *)

Tick(actDom, ssidDom, snapDom, maxTicks) ==
    /\ pc = "running"
    /\ counter < maxTicks
    /\ \E rep \in Outputs(actDom), ssid \in Outputs(ssidDom), snap \in snapDom :
           UpdateActiveStates(rep, ssid) /\ Metrics(snap)
    /\ handled' = Handled("Tick", NoAction)
    /\ UNCHANGED << selVars, pc >>

TunnelNames == {"home", "office", "lab"}

New(vpnDom, wifiDom, actDom, ssidDom, snapDom) ==
    /\ vpn_names \in vpnDom
    /\ wifi_ssids \in wifiDom
    /\ previous_active_vpns = << >>
    /\ \E rep \in Outputs(actDom) :
          /\ active_vpns = Reported(rep, << >>)
          /\ notifications = Diff(<< >>, Reported(rep, << >>))
          /\ raised = LastRaised([t \in TunnelNames |-> "none"],
                                 Diff(<< >>, Reported(rep, << >>)))
    /\ \E ssid \in Outputs(ssidDom) : current_ssid = Reported(ssid, "")
    /\ selection_mode = "VPN"
    /\ previous_mode = "VPN"
    /\ password_input = << >>
    /\ selected = 0
    /\ interfaces = << >>
    /\ last_stats \in snapDom
    /\ counter = 0
    /\ graph_index = 0
    /\ pc = "running"
    /\ handled = Handled("none", NoAction)
    /\ entry = NoEntry
    /\ typed = 0

----------------------------------------------------------------------------
(* Input domains *)

Snapshots(names, rxs) == UNION {[S -> rxs] : S \in SUBSET names}

\* the sequences over a set of names that name nothing twice
Orderings(names) ==
    UNION {{s \in [1 .. n -> names] : \A i, j \in 1 .. n : i # j => s[i] # s[j]} :
             n \in 0 .. Cardinality(names)}

VpnLists == {<< >>, << "home" >>, << "home", "office" >>}
WifiLists == {<< >>, << "cafe" >>}

ActiveFew == {<< "home" >>}
SsidFew == {"cafe"}
SnapFew == {(ETH0 :> 1000)}

----------------------------------------------------------------------------
(* Specifications *)

Init == New(VpnLists, WifiLists, ActiveFew, SsidFew, SnapFew)

Next ==
    \/ PwEnter
    \/ PwEsc
    \/ PwBackspace
    \/ PwChar(MaxSecretLen)
    \/ Ignored
    \/ KeyQuit
    \/ KeyTab
    \/ KeyDown
    \/ KeyUp
    \/ KeyEnter
    \/ KeyDisconnect
    \/ KeyRefresh(VpnLists, WifiLists)
    \/ KeyGraph(MaxGraph)
    \/ KeyEditor
    \/ Tick(ActiveFew, SsidFew, SnapFew, MaxTicks)

Spec == Init /\ [][Next]_vars

\* the connection state tracker under every order of every set of active tunnels
ActiveAll == Orderings(TunnelNames)
SnapNone == {<< >>}

InitConn == New({<< "home" >>}, {<< >>}, ActiveAll, SsidFew, SnapNone)

NextConn == Tick(ActiveAll, SsidFew, SnapNone, MaxTicksConn)

SpecConn == InitConn /\ [][NextConn]_vars

\* the throughput tracker under every snapshot of three interfaces
RxValues == {1000, 1000 + 655360}
SnapAll == Snapshots({ETH0, TUN0, LO}, RxValues)
ActiveNone == {<< >>}

InitMetrics == New({<< "home" >>}, {<< >>}, ActiveNone, SsidFew, SnapAll)

NextMetrics == Tick(ActiveNone, SsidFew, SnapAll, MaxTicksMetrics)

SpecMetrics == InitMetrics /\ [][NextMetrics]_vars

\* the throughput tracker over more ticks than a history holds samples
SnapWindow == {<< >>, (ETH0 :> 1000)}

InitWindow == New({<< "home" >>}, {<< >>}, ActiveNone, {""}, SnapWindow)

NextWindow == Tick(ActiveNone, {""}, SnapWindow, MaxTicksWindow)

SpecWindow == InitWindow /\ [][NextWindow]_vars

\* cursor navigation over lists of up to three names
NavVpnLists == {<< >>, << "home" >>, << "home", "lab", "office" >>}
NavWifiLists == {<< >>, << "cafe", "lobby" >>}

InitNav == New(NavVpnLists, NavWifiLists, ActiveNone, {""}, SnapNone)

NextNav ==
    \/ KeyDown
    \/ KeyUp
    \/ KeyTab
    \/ KeyRefresh(NavVpnLists, NavWifiLists)
    \/ KeyEnter
    \/ PwEsc

SpecNav == InitNav /\ [][NextNav]_vars

\* secret entry with the characters that are commands in the browse modes
\* (j, k: cursor; x: disconnect; r: refresh; g: graph; q: quit)
CommandChars == {"j", "k", "x", "r", "g", "q"}

InitSecret == New(VpnLists, WifiLists, ActiveNone, {""}, SnapNone)

NextSecret ==
    \/ KeyEnter
    \/ KeyTab
    \/ KeyDown
    \/ PwCharOf(CommandChars, MaxSecretLen)
    \/ PwBackspace
    \/ PwEsc
    \/ PwEnter
    \/ Ignored

SpecSecret == InitSecret /\ [][NextSecret]_vars

----------------------------------------------------------------------------
(* Graph series selection: ui *)

\* the characters of the interface names, in the byte order String compares by
CharOrder ==
    << "-", "0", "1", "b", "c", "d", "e", "g", "h", "k", "l", "n", "o", "p", "r",
       "t", "u", "w" >>

CharCode(c) == CHOOSE i \in 1 .. Len(CharOrder) : CharOrder[i] = c

\* a < b as String orders them
NameBefore(a, b) ==
    \/ Len(a) < Len(b) /\ StartsWith(b, a)
    \/ \E i \in 1 .. Len(a) :
          /\ i <= Len(b)
          /\ \A j \in 1 .. (i - 1) : a[j] = b[j]
          /\ CharCode(a[i]) < CharCode(b[i])

RECURSIVE SortByName(_)
SortByName(S) ==
    IF S = {} THEN << >>
    ELSE LET m == CHOOSE x \in S : \A y \in S \ {x} : NameBefore(x, y)
         IN  << m >> \o SortByName(S \ {m})

\* the names the address listing yields, from the names its lines carry
get_active_ips(listed) == {n \in listed : n # LO}

ifaces_with_ip(ips) == {n \in DOMAIN interfaces : n \in ips}

physical_active(ips) ==
    SortByName({n \in ifaces_with_ip(ips) :
                  StartsWith(n, << "e" >>) \/ StartsWith(n, << "w" >>)})

tunnel_active(ips) ==
    SortByName({n \in ifaces_with_ip(ips) :
                  \/ StartsWith(n, << "t", "u", "n" >>)
                  \/ StartsWith(n, << "w", "g" >>)
                  \/ StartsWith(n, << "p", "p", "p" >>)})

Graph(name, color) == [kind |-> "graph", name |-> name, color |-> color]

Placeholder == [kind |-> "placeholder", name |-> << >>, color |-> "none"]

\* what the graph area of a frame shows
GraphShown(ips) ==
    LET t == tunnel_active(ips)
        p == physical_active(ips)
    IN  IF graph_index % 2 # 0 /\ t # << >>
        THEN Graph(t[((graph_index \div 2) % Len(t)) + 1], "Cyan")
        ELSE IF p # << >>
             THEN Graph(p[1], interfaces[p[1]].color)
             ELSE Placeholder

Max2(a, b) == IF a >= b THEN a ELSE b

\* the largest y among samples lo .. hi, by halves
RECURSIVE MaxBetween(_, _, _)
MaxBetween(data, lo, hi) ==
    IF lo = hi THEN data[lo][2]
    ELSE LET mid == (lo + hi) \div 2
         IN  Max2(MaxBetween(data, lo, mid), MaxBetween(data, mid + 1, hi))

\* data.iter().map(y).fold(acc, f64::max)
FoldMax(data, acc) ==
    IF data = << >> THEN acc ELSE Max2(acc, MaxBetween(data, 1, Len(data)))

\* YBound with the fold started at zero and no floor
YBoundNoFloor(data) == FoldMax(data, 0)

\* max_val of a frame, over MbDiv like the speeds
YBound(data) == Max2(FoldMax(data, MbDiv), MbDiv)

\* x_bounds of a frame
XBounds == << counter - WindowWidth, counter >>

\* what the address listing can carry at a frame
Listings == SUBSET {ETH0, TUN0, WG0, LO}

SnapRender == Snapshots({ETH0, TUN0, WG0}, {1000})

InitRender == New({<< "home" >>}, {<< >>}, ActiveNone, {""}, SnapRender)

NextRender ==
    \/ Tick(ActiveNone, {""}, SnapRender, MaxTicksRender)
    \/ KeyGraph(MaxGraphRender)

SpecRender == InitRender /\ [][NextRender]_vars

\* one interface whose receive counter only grows: at most one burst, then
\* silence for longer than a history lasts
SnapSpike == {(ETH0 :> 1000), (ETH0 :> 1000 + 655360)}

Cumulative(snapDom) ==
    {snap \in snapDom : \A n \in DOMAIN snap \cap DOMAIN last_stats : snap[n] >= last_stats[n]}

InitSpike == New({<< "home" >>}, {<< >>}, ActiveNone, {""}, {(ETH0 :> 1000)})

NextSpike == Tick(ActiveNone, {""}, Cumulative(SnapSpike), MaxTicksWindow)

SpecSpike == InitSpike /\ [][NextSpike]_vars

\* the throughput tracker offered loopback, container and bridge interfaces
SnapNames == Snapshots({ETH0, LO, DOCKER0, BR1}, {1000})

InitNames == New({<< "home" >>}, {<< >>}, ActiveNone, {""}, SnapNames)

NextNames == Tick(ActiveNone, {""}, SnapNames, MaxTicksMetrics)

SpecNames == InitNames /\ [][NextNames]_vars

----------------------------------------------------------------------------
(* Properties *)

Range(s) == {s[i] : i \in 1 .. Len(s)}

Increasing(h) == \A i \in 1 .. (Len(h) - 1) : h[i][1] < h[i + 1][1]

IsTick == counter' = counter + 1

\* every handler records its key, so a step that is not a stuttering step is a step of key k
IsKey(k) == handled'.key = k

InSecretEntry == selection_mode = "PasswordInput"

\* C1: after every tick every tracked interface's history holds at most 300
\* samples with strictly increasing sequence numbers, and a push onto a history
\* of 300 samples drops exactly its oldest sample.
C1_HistoryWindow ==
    [][IsTick =>
        \A n \in DOMAIN interfaces' :
            LET h == interfaces'[n].history
            IN  /\ Len(h) <= 300
                /\ Increasing(h)
                /\ (n \in DOMAIN interfaces /\ Len(interfaces[n].history) = 300)
                     => /\ Len(h) = 300
                        /\ SubSeq(h, 1, 299) = Tail(interfaces[n].history)
                        /\ h[300][1] = counter']_vars

\* a history that has been full for a tick: its oldest sample is gone
C1_Witness ==
    /\ ETH0 \in DOMAIN interfaces
    /\ Len(interfaces[ETH0].history) = 300
    /\ interfaces[ETH0].history[1][1] = 2
    /\ interfaces[ETH0].history[300][1] = 301

C3_CursorInRange ==
    LET list == ListOf(IF InSecretEntry THEN previous_mode ELSE selection_mode)
    IN  Len(list) > 0 => (0 <= selected /\ selected < Len(list))

CountOf(evs, kind, t) ==
    Cardinality({i \in 1 .. Len(evs) : evs[i].kind = kind /\ evs[i].name = t})

\* C4: a poll from active set P to reported set N raises exactly one
\* Disconnected(t) for each t in P \ N, exactly one Connected(t) for each t in
\* N \ P, nothing else, and every Disconnected before every Connected.
C4_PollDiff ==
    [][IsTick =>
        LET P == Range(active_vpns)
            N == Range(active_vpns')
            evs == notifications'
        IN  /\ \A t \in P \ N :
                  CountOf(evs, "Disconnected", t) = 1 /\ CountOf(evs, "Connected", t) = 0
            /\ \A t \in N \ P :
                  CountOf(evs, "Connected", t) = 1 /\ CountOf(evs, "Disconnected", t) = 0
            /\ \A i \in 1 .. Len(evs) :
                  /\ evs[i].kind \in {"Connected", "Disconnected"}
                  /\ evs[i].name \in (P \ N) \cup (N \ P)
            /\ \A i, j \in 1 .. Len(evs) :
                  (evs[i].kind = "Disconnected" /\ evs[j].kind = "Connected") => i < j]_vars

\* previous {home, office}, new {office, lab}: Disconnected(home), then Connected(lab)
C4_Witness ==
    /\ counter > 0
    /\ previous_active_vpns = << "home", "office" >>
    /\ active_vpns = << "office", "lab" >>
    /\ notifications = << [kind |-> "Disconnected", name |-> "home"],
                          [kind |-> "Connected", name |-> "lab"] >>

\* C5: over any sequence of polls, available or not, each tunnel's events
\* alternate Connected / Disconnected starting with Connected, at most one per
\* poll, and a tunnel that stays active or stays inactive raises none.
C5_OncePerChange ==
    /\ \A i \in 1 .. Len(notifications) : notifications[i].kind = "Connected"
    /\ [][IsTick =>
            \A t \in TunnelNames :
                LET c == CountOf(notifications', "Connected", t)
                    d == CountOf(notifications', "Disconnected", t)
                IN  /\ c + d <= 1
                    /\ c = 1 => raised[t] \in {"none", "Disconnected"}
                    /\ d = 1 => raised[t] = "Connected"
                    /\ (InSeq(t, active_vpns) <=> InSeq(t, active_vpns')) => c + d = 0]_vars

\* home has gone down and stays down, office stays up: the poll raises nothing
C5_Witness ==
    /\ counter >= 2
    /\ raised["home"] = "Disconnected"
    /\ ~InSeq("home", previous_active_vpns) /\ ~InSeq("home", active_vpns)
    /\ InSeq("office", previous_active_vpns) /\ InSeq("office", active_vpns)
    /\ raised["office"] = "Connected"
    /\ notifications = << >>

\* C6: SecretEntry keeps its originating mode, leaving it by commit or by Cancel
\* returns to the browse mode it was entered from, and Cancel starts no connect.
C6_ReturnToOrigin ==
    [][InSecretEntry =>
        /\ previous_mode' = previous_mode
        /\ previous_mode = entry.mode
        /\ selection_mode' # "PasswordInput" => selection_mode' = entry.mode
        /\ IsKey("Esc") => (selection_mode' = entry.mode /\ handled'.out = NoAction)]_vars

\* a secret typed for a Wi-Fi network was cancelled: back in WiFi, nothing submitted
C6_Witness ==
    /\ handled.key = "Esc"
    /\ selection_mode = "WiFi"
    /\ entry.mode = "WiFi"
    /\ Len(password_input) = 2

\* C7: a commit in SecretEntry submits (origin, name under the cursor at entry,
\* buffer), returns to origin and leaves the cursor where it was.
C7_CommitSubmits ==
    [][(InSecretEntry /\ IsKey("Enter")) =>
        /\ entry.name # NoName
        /\ handled'.out = Act("connect", entry.mode, entry.name, password_input)
        /\ selection_mode' = entry.mode
        /\ selected' = selected]_vars

\* the throughput of main.rs:122 as the specification states it, times MbDiv:
\* delta_rx * 8 / (interval_seconds * 1024 * 1024), 1 / interval_seconds = 1000 / TickMillis
SpecifiedSpeed(rx, old_rx) == SatSub(rx, old_rx) * 8 * (1000 \div TickMillis)

\* C8: the sample appended at a tick, and current_speed, are
\* delta_rx * 8 / (0.5 * 1024 * 1024): 10.0 Mbps for rx 1000 -> 1000 + 655360.
C8_ThroughputPerSecond ==
    [][IsTick =>
        \A n \in DOMAIN interfaces' :
            (n \in DOMAIN last_stats /\ ~Excluded(n)) =>
                LET e == interfaces'[n]
                    want == SpecifiedSpeed(last_stats'[n], last_stats[n])
                IN  /\ e.current_speed = want
                    /\ e.history[Len(e.history)] = << counter', want >>]_vars

\* C9: the loop ends only on the quit key; a commit in SecretEntry always
\* returns to the originating browse mode with the loop running.
C9_NoFatalFailure ==
    [][/\ pc' # pc => (pc' = "quit" /\ IsKey("q"))
       /\ (InSecretEntry /\ IsKey("Enter"))
            => (selection_mode' = entry.mode /\ pc' = "running")]_vars

\* C10: the tracked interfaces are among those of the last snapshot.
C10_TrackedInSnapshot ==
    DOMAIN interfaces \subseteq DOMAIN last_stats

\* two ticks on, eth0 is gone from the snapshot and from the tracked set
\* while tun0, still reported, has both its samples
C10_Witness ==
    /\ counter = 2
    /\ ETH0 \notin DOMAIN last_stats
    /\ DOMAIN interfaces = {TUN0}
    /\ Len(interfaces[TUN0].history) = 2

\* C11: the throughput computed at a tick is >= 0, and exactly 0 when the rx
\* counter went down; current_speed and every history sample are >= 0.
C11_NeverNegative ==
    [][IsTick =>
        \A n \in DOMAIN interfaces' :
            LET e == interfaces'[n]
            IN  /\ e.current_speed >= 0
                /\ \A i \in 1 .. Len(e.history) : e.history[i][2] >= 0
                /\ (n \in DOMAIN last_stats /\ last_stats'[n] < last_stats[n])
                     => /\ e.current_speed = 0
                        /\ e.history[Len(e.history)] = << counter', 0 >>]_vars

\* eth0 went 1000 -> 1000 + 655360 -> 1000: a positive sample, then 0 for the decrease
C11_Witness ==
    /\ ETH0 \in DOMAIN interfaces
    /\ last_stats[ETH0] = 1000
    /\ interfaces[ETH0].history = << << 1, 5 * MbDiv >>, << 2, 0 >> >>
    /\ interfaces[ETH0].current_speed = 0

\* C12: in a browse mode with a list of len > 0 names and the cursor c in
\* [0, len), CursorDown moves the cursor to (c + 1) mod len and CursorUp to
\* (c - 1 + len) mod len; with len = 0 both leave the cursor and the mode alone.
C12_CircularCursor ==
    [][Browsing =>
        LET len == Len(ListOf(selection_mode))
            c == selected
        IN  /\ (IsKey("Down") /\ len > 0 /\ c < len)
                 => (selected' = (c + 1) % len /\ selection_mode' = selection_mode)
            /\ (IsKey("Up") /\ len > 0 /\ c < len)
                 => (selected' = (c - 1 + len) % len /\ selection_mode' = selection_mode)
            /\ ((IsKey("Down") \/ IsKey("Up")) /\ len = 0)
                 => (selected' = c /\ selection_mode' = selection_mode)]_vars

\* CursorUp at index 0 of a list of three names has wrapped to index 2
C12_Witness ==
    /\ selection_mode = "VPN"
    /\ Len(vpn_names) = 3
    /\ handled.key = "Up"
    /\ selected = 2

\* C13: in SecretEntry the buffer holds as many characters as were typed since
\* entry less the Backspaces that followed (so N characters then N Backspaces
\* leave it empty), and Backspace on an empty buffer leaves it empty.
C13_RoundTrip ==
    /\ [](InSecretEntry => Len(password_input) = typed)
    /\ [][(InSecretEntry /\ IsKey("Backspace") /\ password_input = << >>)
            => password_input' = << >>]_vars

\* a Backspace has left the buffer empty
C13_Witness ==
    /\ InSecretEntry
    /\ handled.key = "Backspace"
    /\ typed = 0
    /\ password_input = << >>

\* C16: in SecretEntry only Confirm and Cancel change the mode; no event
\* changes the cursor, the originating mode, the name lists or the graph index,
\* or starts a disconnect; every other event changes at most the secret buffer.
C16_SecretEntryFrame ==
    [][(InSecretEntry /\ pc = "running") =>
        /\ selected' = selected
        /\ previous_mode' = previous_mode
        /\ vpn_names' = vpn_names
        /\ wifi_ssids' = wifi_ssids
        /\ graph_index' = graph_index
        /\ handled'.out.kind # "disconnect"
        /\ selection_mode' # selection_mode => (IsKey("Enter") \/ IsKey("Esc"))
        /\ ~(IsKey("Enter") \/ IsKey("Esc"))
             => (pc' = pc /\ handled'.out = NoAction /\ tickVars' = tickVars)]_vars

\* the quit key and the cursor-down key were typed into the secret
C16_Witness ==
    /\ InSecretEntry
    /\ pc = "running"
    /\ handled.key = "Char"
    /\ password_input = << "q", "j" >>
    /\ selected = entry.selected
    /\ graph_index = 0

\* C20: every step from a browse mode into SecretEntry leaves the buffer empty,
\* and a submitted secret holds only the characters typed since that step.
C20_FreshBufferOnEntry ==
    [][/\ (~InSecretEntry /\ selection_mode' = "PasswordInput")
            => password_input' = << >>
       /\ (InSecretEntry /\ IsKey("Enter") /\ handled'.out.kind = "connect")
            => Len(handled'.out.secret) = typed]_vars

\* SecretEntry has just been entered from BrowseWiFi
C20_Witness ==
    /\ InSecretEntry
    /\ pc = "running"
    /\ handled.key = "Enter"
    /\ entry.mode = "WiFi"
    /\ password_input = << >>

\* C14 (as claimed): a non-excluded interface that is in the snapshot of a tick
\* and has no entity gets one, with one sample, at that tick.
C14_CreatedOnFirstAppearance ==
    [][IsTick =>
        \A n \in DOMAIN last_stats' :
            (~Excluded(n) /\ n \notin DOMAIN interfaces)
                => /\ n \in DOMAIN interfaces'
                   /\ Len(interfaces'[n].history) = 1]_vars

\* C14 (amended): an untracked, non-excluded interface gets its entity, with one
\* sample, at the first tick whose snapshot and whose preceding snapshot both
\* hold it; an interface absent from the preceding snapshot gets none at that
\* tick; a tracked interface gets exactly one new sample at every tick whose
\* snapshot holds it, and is removed at the first tick whose snapshot lacks it.
C14_Lifecycle ==
    [][IsTick =>
        \A n \in DOMAIN last_stats \cup DOMAIN last_stats' \cup DOMAIN interfaces :
            LET inNow == n \in DOMAIN last_stats'
                inPrev == n \in DOMAIN last_stats
                tracked == n \in DOMAIN interfaces
            IN  /\ (inNow /\ inPrev /\ ~Excluded(n) /\ ~tracked)
                     => /\ n \in DOMAIN interfaces'
                        /\ Len(interfaces'[n].history) = 1
                        /\ interfaces'[n].history[1][1] = counter'
                /\ (inNow /\ ~inPrev) => n \notin DOMAIN interfaces'
                /\ (inNow /\ tracked)
                     => /\ n \in DOMAIN interfaces'
                        /\ LET h == interfaces[n].history
                               g == interfaces'[n].history
                           IN  /\ Len(h) < HistoryCap
                                    => (Len(g) = Len(h) + 1 /\ SubSeq(g, 1, Len(h)) = h)
                               /\ g[Len(g)][1] = counter'
                /\ ~inNow => n \notin DOMAIN interfaces']_vars

\* tun0 was first reported at tick 1 and got its entity, with one sample, at
\* tick 2, beside eth0 which was in the start-up baseline
C14_Witness ==
    /\ counter = 2
    /\ TUN0 \in DOMAIN interfaces
    /\ Len(interfaces[TUN0].history) = 1
    /\ interfaces[TUN0].history[1][1] = 2
    /\ ETH0 \in DOMAIN interfaces
    /\ Len(interfaces[ETH0].history) = 2

\* C15: at every frame, whatever the graph index, when a tracked tunnel
\* interface or a tracked physical/wireless interface has an address the graph
\* area shows the series of one of them, not the placeholder.
C15_PlaceholderOnlyWhenNone ==
    \A listed \in Listings :
        LET ips == get_active_ips(listed)
            t == tunnel_active(ips)
            p == physical_active(ips)
        IN  (t # << >> \/ p # << >>)
                => /\ GraphShown(ips).kind = "graph"
                   /\ GraphShown(ips).name \in Range(t) \cup Range(p)

MaxOf(S) == CHOOSE m \in S : \A x \in S : x <= m

\* C17: for every tracked interface the vertical bound of a frame is the larger
\* of 1.0 and the largest throughput among the samples whose sequence number
\* lies in the horizontal window, and no retained sample lies outside it.
C17_VerticalBound ==
    \A n \in DOMAIN interfaces :
        LET h == interfaces[n].history
            visible == {i \in 1 .. Len(h) :
                          h[i][1] >= XBounds[1] /\ h[i][1] <= XBounds[2]}
        IN  /\ YBound(h) = MaxOf({MbDiv} \cup {h[i][2] : i \in visible})
            /\ visible = 1 .. Len(h)

\* a burst of 5 Mb/s is in the window of a frame drawn after more than 300
\* ticks and sets its bound
C17_Witness ==
    /\ counter > HistoryCap
    /\ ETH0 \in DOMAIN interfaces
    /\ Len(interfaces[ETH0].history) = HistoryCap
    /\ interfaces[ETH0].current_speed = 0
    /\ YBound(interfaces[ETH0].history) = 5 * MbDiv

\* C18: no tracked interface is the loopback, and none has a name that starts
\* with "docker" or with "br-".
C18_ExcludedNeverTracked ==
    \A n \in DOMAIN interfaces :
        /\ n # LO
        /\ ~StartsWith(n, << "d", "o", "c", "k", "e", "r" >>)
        /\ ~StartsWith(n, << "b", "r", "-" >>)

\* two successive snapshots held lo, docker0 and br-1 beside eth0, and eth0
\* alone is tracked
C18_Witness ==
    /\ counter >= 1
    /\ DOMAIN last_stats = {ETH0, LO, DOCKER0, BR1}
    /\ DOMAIN interfaces = {ETH0}
    /\ Len(interfaces[ETH0].history) >= 1

\* C19: once a tick has run, every tracked interface has a non-empty history
\* whose sequence numbers rise by one from sample to sample and end at the
\* counter, its current_speed is the throughput of the last sample, and every
\* sample lies in [counter - 300, counter].
C19_HistoryShape ==
    counter >= 1 =>
        \A n \in DOMAIN interfaces :
            LET e == interfaces[n]
                h == e.history
            IN  /\ h # << >>
                /\ \A i \in 1 .. (Len(h) - 1) : h[i + 1][1] = h[i][1] + 1
                /\ h[Len(h)][1] = counter
                /\ e.current_speed = h[Len(h)][2]
                /\ \A i \in 1 .. Len(h) :
                      h[i][1] >= counter - WindowWidth /\ h[i][1] <= counter

\* a full history, ending at the counter, after more ticks than it holds
C19_Witness ==
    /\ counter > HistoryCap
    /\ ETH0 \in DOMAIN interfaces
    /\ Len(interfaces[ETH0].history) = HistoryCap
    /\ interfaces[ETH0].history[1][1] = counter - (HistoryCap - 1)
    /\ interfaces[ETH0].history[HistoryCap][1] = counter

====
